---- MODULE Spec2Model ----
(***************************************************************************)
(* Model of security_scan.py: run_ssl_scan reads a targets file, runs one  *)
(* nmap scan per target, and create_pdf classifies every target's raw      *)
(* output against WEAK_TLS_INDICATORS and composes the report pages        *)
(* (cover image, cover page, summary page, one detail page per target).    *)
(*                                                                         *)
(* Strings are sequences of one-character strings, so that Python's        *)
(* substring test, str.split("\n"), str.strip() and "".join() are computed *)
(* character by character.  A dict is a sequence of entries with distinct  *)
(* keys, in insertion order.                                               *)
(***************************************************************************)
EXTENDS Integers, Sequences, FiniteSets, TLC

VARIABLES
    entry,            \* which function was called: "run_ssl_scan" or "create_pdf"
    pc,               \* position in the program
    file_exists,      \* os.path.exists(targets_file)
    file_lines,       \* the lines of the targets file, each with its line end
    cover_exists,     \* os.path.exists(COVER_IMAGE_PATH)
    targets,          \* run_ssl_scan: targets
    idx,              \* run_ssl_scan: position of the scan loop in targets
    scan_log,         \* every nmap command issued, with the stdout it returned
    create_pdf_calls, \* number of calls of create_pdf
    scan_results,     \* dict target -> raw output
    images,           \* create_pdf: images
    strong_targets,   \* create_pdf: strong_targets
    weak_targets,     \* create_pdf: weak_targets (dict target -> matched lines)
    high_findings,    \* the list whose length is written as High-Risk Findings
    medium_findings,  \* the list whose length is written as Medium-Risk Findings
    detail_idx,       \* create_pdf: position of the detail page loop
    saved,            \* the output document has been written
    document          \* the pages of the written document

vars == <<entry, pc, file_exists, file_lines, cover_exists, targets, idx, scan_log,
          create_pdf_calls, scan_results, images, strong_targets, weak_targets,
          high_findings, medium_findings, detail_idx, saved, document>>

----------------------------------------------------------------------------
(* Bounds of the model *)

\* most lines in the targets file
MaxFileLines == 3
\* most fragments concatenated into a generated raw output
MaxFrags == 3
\* most lines of a long raw output
MaxLines == 46

----------------------------------------------------------------------------
(* Strings *)

NL == "\n"

SSLv2 == <<"S", "S", "L", "v", "2">>
SSLv3 == <<"S", "S", "L", "v", "3">>
TLSv1_0 == <<"T", "L", "S", "v", "1", ".", "0">>
TLSv1_1 == <<"T", "L", "S", "v", "1", ".", "1">>
EXP == <<"E", "X", "P">>
LOW == <<"L", "O", "W">>
MEDIUM == <<"M", "E", "D", "I", "U", "M">>
CBC == <<"C", "B", "C">>
RC4 == <<"R", "C", "4">>
TripleDES == <<"3", "D", "E", "S">>

WEAK_TLS_INDICATORS ==
    <<SSLv2, SSLv3, TLSv1_0, TLSv1_1, EXP, LOW, MEDIUM, CBC, RC4, TripleDES>>

\* the literal 'TLS 1.0' of the High-Risk Findings line
TLS_1_0 == <<"T", "L", "S", " ", "1", ".", "0">>

\* the text stored for a scan without stdout
NO_OUTPUT == <<"N", "o", " ", "o", "u", "t", "p", "u", "t", " ", "o", "r", " ",
               "s", "c", "a", "n", " ", "f", "a", "i", "l", "e", "d", ".">>

\* Python: m in s (substring test, case-sensitive)
Contains(s, m) ==
    \E i \in 1..(Len(s) - Len(m) + 1) : SubSeq(s, i, i + Len(m) - 1) = m

\* Python: any(weak in text for weak in WEAK_TLS_INDICATORS)
AnyWeakIn(text) ==
    \E k \in 1..Len(WEAK_TLS_INDICATORS) : Contains(text, WEAK_TLS_INDICATORS[k])

RECURSIVE Split(_)
\* Python: s.split("\n")
Split(s) ==
    IF \A i \in 1..Len(s) : s[i] # NL
    THEN <<s>>
    ELSE LET p == CHOOSE i \in 1..Len(s) :
                      s[i] = NL /\ \A j \in 1..(i - 1) : s[j] # NL
         IN  <<SubSeq(s, 1, p - 1)>> \o Split(SubSeq(s, p + 1, Len(s)))

Whitespace == {" ", "\n", "\t", "\r"}

\* Python: s.strip()
Strip(s) ==
    LET keep == {i \in 1..Len(s) : s[i] \notin Whitespace}
    IN  IF keep = {} THEN <<>>
        ELSE LET lo == CHOOSE i \in keep : \A j \in keep : i <= j
                 hi == CHOOSE i \in keep : \A j \in keep : j <= i
             IN  SubSeq(s, lo, hi)

RECURSIVE Join(_)
\* Python: ''.join(lines)
Join(lines) ==
    IF lines = <<>> THEN <<>> ELSE Head(lines) \o Join(Tail(lines))

----------------------------------------------------------------------------
(* Dicts: sequences of entries with distinct keys, in insertion order *)

Keys(d) == {d[i].target : i \in 1..Len(d)}

HasKey(d, k) == k \in Keys(d)

KeyIndex(d, k) == CHOOSE i \in 1..Len(d) : d[i].target = k

\* Python: d[k] = v
DictSet(d, k, e) ==
    IF HasKey(d, k)
    THEN [d EXCEPT ![KeyIndex(d, k)] = e]
    ELSE Append(d, e)

----------------------------------------------------------------------------
(* Inputs *)

RECURSIVE Concat(_)
Concat(parts) == IF parts = <<>> THEN <<>> ELSE Head(parts) \o Concat(Tail(parts))

SeqsUpTo(S, n) == UNION {[1..k -> S] : k \in 0..n}

\* lines of a targets file: blank, a target, a target in blanks, another target
RawLines ==
    { <<"\n">>, <<"a", "\n">>, <<" ", "a", " ", "\n">>, <<"b", "\n">> }

FileContents == SeqsUpTo(RawLines, MaxFileLines)

\* "TLSv1.0 enabled"
FragLegacy == <<"T", "L", "S", "v", "1", ".", "0", " ", "e", "n", "a", "b", "l", "e", "d">>
\* "AES256-GCM strong"
FragStrong == <<"A", "E", "S", "2", "5", "6", "-", "G", "C", "M", " ",
                "s", "t", "r", "o", "n", "g">>
\* "CBC R"
FragCbcR == <<"C", "B", "C", " ", "R">>
\* "C4 LOW"
FragC4Low == <<"C", "4", " ", "L", "O", "W">>
\* "TLS_AES_256_GCM_SHA384 preferred"
OutPreferred == <<"T", "L", "S", "_", "A", "E", "S", "_", "2", "5", "6", "_", "G", "C", "M",
                  "_", "S", "H", "A", "3", "8", "4", " ",
                  "p", "r", "e", "f", "e", "r", "r", "e", "d">>

\* "rc4 cbc low": marker names in lower case
OutLower == <<"r", "c", "4", " ", "c", "b", "c", " ", "l", "o", "w">>

Fragments == { <<NL>>, FragLegacy, FragStrong, TLS_1_0, FragCbcR, FragC4Low }

\* raw outputs made of at most MaxFrags fragments
GenOutputs == {Concat(fs) : fs \in SeqsUpTo(Fragments, MaxFrags)}

\* n lines "x", joined by line ends
LongOutput(n) == [i \in 1..(2 * n - 1) |-> IF i % 2 = 1 THEN "x" ELSE NL]

LongOutputs == {LongOutput(n) : n \in (MaxLines - 4)..MaxLines}

\* what nmap may print for a target; the empty text is a failed scan
ScanOutputs ==
    { <<>>, OutPreferred, FragLegacy \o <<NL>> \o FragStrong, FragCbcR \o FragC4Low }

TargetNames == { <<"a">>, <<"b">> }

\* what run_ssl_scan stores for the outputs of ScanOutputs
StoredOutputs == {IF o # <<>> THEN o ELSE NO_OUTPUT : o \in ScanOutputs}

\* mappings given to create_pdf: none, one or two targets
Mappings ==
    {<<>>}
    \cup {<<[target |-> t, output |-> o]>> :
             t \in TargetNames,
             o \in GenOutputs \cup LongOutputs \cup StoredOutputs \cup {OutLower}}
    \cup {<<[target |-> t1, output |-> o1], [target |-> t2, output |-> o2]>> :
             <<t1, t2>> \in {p \in TargetNames \X TargetNames : p[1] # p[2]},
             o1 \in GenOutputs, o2 \in StoredOutputs}

----------------------------------------------------------------------------
(* run_ssl_scan *)

\* mutant: the "if line.strip()" filter is left out
ReadTargetList_NoFilter(lines) == [i \in 1..Len(lines) |-> Strip(lines[i])]

\* targets = [line.strip() for line in f if line.strip()]
ReadTargetList(lines) ==
    LET NonBlank(line) == Strip(line) # <<>>
        kept == SelectSeq(lines, NonBlank)
    IN  [i \in 1..Len(kept) |-> Strip(kept[i])]

\* if not os.path.exists(targets_file): return
FileNotFound ==
    /\ pc = "run_ssl_scan"
    /\ ~file_exists
    /\ pc' = "returned"
    /\ UNCHANGED <<entry, file_exists, file_lines, cover_exists, targets, idx, scan_log,
                   create_pdf_calls, scan_results, images, strong_targets, weak_targets,
                   high_findings, medium_findings, detail_idx, saved, document>>

\* the file is read and holds no target: return
NoValidTargets ==
    /\ pc = "run_ssl_scan"
    /\ file_exists
    /\ ReadTargetList(file_lines) = <<>>
    /\ targets' = ReadTargetList(file_lines)
    /\ pc' = "returned"
    /\ UNCHANGED <<entry, file_exists, file_lines, cover_exists, idx, scan_log,
                   create_pdf_calls, scan_results, images, strong_targets, weak_targets,
                   high_findings, medium_findings, detail_idx, saved, document>>

\* the file is read and holds targets: the scan loop starts
ReadTargets ==
    /\ pc = "run_ssl_scan"
    /\ file_exists
    /\ ReadTargetList(file_lines) # <<>>
    /\ targets' = ReadTargetList(file_lines)
    /\ idx' = 1
    /\ scan_results' = <<>>
    /\ pc' = "scanning"
    /\ UNCHANGED <<entry, file_exists, file_lines, cover_exists, scan_log,
                   create_pdf_calls, images, strong_targets, weak_targets,
                   high_findings, medium_findings, detail_idx, saved, document>>

\* one iteration of "for target in targets": the nmap command is run and its
\* stdout, or the failure text when it is empty, is stored under the target
ScanTarget ==
    /\ pc = "scanning"
    /\ idx <= Len(targets)
    /\ \E stdout \in ScanOutputs :
          LET target == targets[idx]
              stored == IF stdout # <<>> THEN stdout ELSE NO_OUTPUT
          IN  /\ scan_log' = Append(scan_log, [target |-> target, stdout |-> stdout])
              /\ scan_results' =
                    DictSet(scan_results, target, [target |-> target, output |-> stored])
    /\ idx' = idx + 1
    /\ UNCHANGED <<entry, pc, file_exists, file_lines, cover_exists, targets,
                   create_pdf_calls, images, strong_targets, weak_targets,
                   high_findings, medium_findings, detail_idx, saved, document>>

\* the scan loop is over: create_pdf(scan_results, output_pdf, scan_date)
CallCreatePdf ==
    /\ pc = "scanning"
    /\ idx > Len(targets)
    /\ create_pdf_calls' = create_pdf_calls + 1
    /\ pc' = "create_pdf"
    /\ UNCHANGED <<entry, file_exists, file_lines, cover_exists, targets, idx, scan_log,
                   scan_results, images, strong_targets, weak_targets,
                   high_findings, medium_findings, detail_idx, saved, document>>

----------------------------------------------------------------------------
(* create_pdf *)

\* draw.text((x, y), text, fill=fill); kind names the text's template
Draw(x, y, kind, text, fill) ==
    [x |-> x, y |-> y, kind |-> kind, text |-> text, fill |-> fill]

Page(role, target, draws) == [role |-> role, target |-> target, draws |-> draws]

\* the start of create_pdf: the lists are created and the cover image, when its
\* file exists, becomes the first page
LoadCoverImage ==
    /\ pc = "create_pdf"
    /\ images' = IF cover_exists THEN <<Page("cover_image", <<>>, <<>>)>> ELSE <<>>
    /\ strong_targets' = <<>>
    /\ weak_targets' = <<>>
    /\ pc' = "classify"
    /\ UNCHANGED <<entry, file_exists, file_lines, cover_exists, targets, idx, scan_log,
                   create_pdf_calls, scan_results, high_findings, medium_findings,
                   detail_idx, saved, document>>

\* if any(weak in output for weak in WEAK_TLS_INDICATORS)
IsWeakOutput(output) == AnyWeakIn(output)

\* mutant: every line of a weak output is kept
MatchedLines_AllLines(output) == Split(output)

\* [line for line in output.split("\n") if any(weak in line for weak in ...)]
MatchedLines(output) == SelectSeq(Split(output), AnyWeakIn)

RECURSIVE Classify_NoElse(_, _, _)
\* mutant: the else is lost, a weak target is appended to strong_targets too
Classify_NoElse(items, strong, weak) ==
    IF items = <<>> THEN [strong |-> strong, weak |-> weak]
    ELSE LET target == Head(items).target
             output == Head(items).output
         IN  IF AnyWeakIn(output)
             THEN Classify_NoElse(Tail(items), Append(strong, target),
                                  DictSet(weak, target,
                                          [target |-> target,
                                           issues |-> SelectSeq(Split(output), AnyWeakIn)]))
             ELSE Classify_NoElse(Tail(items), Append(strong, target), weak)

RECURSIVE Classify(_, _, _)
\* for target, output in scan_results.items(): ...
Classify(items, strong, weak) ==
    IF items = <<>> THEN [strong |-> strong, weak |-> weak]
    ELSE LET target == Head(items).target
             output == Head(items).output
         IN  IF IsWeakOutput(output)
             THEN Classify(Tail(items), strong,
                           DictSet(weak, target,
                                   [target |-> target, issues |-> MatchedLines(output)]))
             ELSE Classify(Tail(items), Append(strong, target), weak)

ClassifyTargets ==
    /\ pc = "classify"
    /\ LET c == Classify(scan_results, strong_targets, weak_targets)
       IN  /\ strong_targets' = c.strong
           /\ weak_targets' = c.weak
    /\ pc' = "cover"
    /\ UNCHANGED <<entry, file_exists, file_lines, cover_exists, targets, idx, scan_log,
                   create_pdf_calls, scan_results, images, high_findings, medium_findings,
                   detail_idx, saved, document>>

TargetsOf(entries) == [i \in 1..Len(entries) |-> entries[i].target]

\* [t for t in weak_targets if 'TLS 1.0' in ''.join(weak_targets[t])
\*                          or 'RC4' in ''.join(weak_targets[t])]
HighRisk(weak) ==
    LET Test(e) == Contains(Join(e.issues), TLS_1_0) \/ Contains(Join(e.issues), RC4)
    IN  TargetsOf(SelectSeq(weak, Test))

\* [t for t in weak_targets if 'CBC' in ''.join(weak_targets[t])]
MediumRisk(weak) ==
    LET Test(e) == Contains(Join(e.issues), CBC)
    IN  TargetsOf(SelectSeq(weak, Test))

\* the Security Findings Summary block of the cover page
CoverDraws(total, strong, weak, high, medium) ==
    << Draw(100, 750, "total", total, "black"),
       Draw(100, 800, "strong", strong, "green"),
       Draw(100, 850, "weak", weak, "red"),
       Draw(100, 900, "high", high, "red"),
       Draw(100, 950, "medium", medium, "orange"),
       Draw(100, 1000, "recommended", 0, "black") >>

CoverPage ==
    /\ pc = "cover"
    /\ high_findings' = HighRisk(weak_targets)
    /\ medium_findings' = MediumRisk(weak_targets)
    /\ images' = Append(images,
                        Page("cover", <<>>,
                             CoverDraws(Len(scan_results), Len(strong_targets),
                                        Len(weak_targets), Len(HighRisk(weak_targets)),
                                        Len(MediumRisk(weak_targets)))))
    /\ pc' = "summary"
    /\ UNCHANGED <<entry, file_exists, file_lines, cover_exists, targets, idx, scan_log,
                   create_pdf_calls, scan_results, strong_targets, weak_targets,
                   detail_idx, saved, document>>

RECURSIVE WeakDraws(_, _)
\* for target, issues in weak_targets.items(): the target, then its issues
WeakDraws(weak, y) ==
    IF weak = <<>> THEN <<>>
    ELSE LET e == Head(weak)
             n == Len(e.issues)
         IN  <<Draw(120, y, "weak_target", e.target, "black")>>
             \o [i \in 1..n |->
                    Draw(140, y + 30 + 25 * (i - 1), "issue", Strip(e.issues[i]), "red")]
             \o WeakDraws(Tail(weak), y + 30 + 25 * n + 20)

\* mutant: the two else branches are left out, an empty section shows no line
SummaryDraws_NoElse(strong, weak) ==
    LET strongPart ==
            [i \in 1..Len(strong) |->
                Draw(120, 200 + 30 * (i - 1), "strong_target", strong[i], "black")]
        y1 == 200 + 30 * Len(strongPart) + 50
    IN  <<Draw(100, 150, "strong_header", <<>>, "black")>>
        \o strongPart
        \o <<Draw(100, y1, "weak_header", <<>>, "black")>>
        \o WeakDraws(weak, y1 + 50)

\* the two sections of the summary page, y_position starting at 150
SummaryDraws(strong, weak) ==
    LET strongPart ==
            IF strong # <<>>
            THEN [i \in 1..Len(strong) |->
                     Draw(120, 200 + 30 * (i - 1), "strong_target", strong[i], "black")]
            ELSE <<Draw(120, 200, "none_strong", <<>>, "black")>>
        y1 == 200 + 30 * Len(strongPart) + 50
    IN  <<Draw(100, 150, "strong_header", <<>>, "black")>>
        \o strongPart
        \o <<Draw(100, y1, "weak_header", <<>>, "black")>>
        \o (IF weak # <<>>
            THEN WeakDraws(weak, y1 + 50)
            ELSE <<Draw(120, y1 + 50, "none_weak", <<>>, "black")>>)

SummaryPage ==
    /\ pc = "summary"
    /\ images' = Append(images,
                        Page("summary", <<>>, SummaryDraws(strong_targets, weak_targets)))
    /\ detail_idx' = 1
    /\ pc' = "details"
    /\ UNCHANGED <<entry, file_exists, file_lines, cover_exists, targets, idx, scan_log,
                   create_pdf_calls, scan_results, strong_targets, weak_targets,
                   high_findings, medium_findings, saved, document>>

\* y_position = 220
DetailTop == 220
\* if y_position > 1300: break
DetailLimit == 1300
\* y_position += 25
DetailLineHeight == 25

RECURSIVE DrawLines_NoBreak(_, _)
\* mutant: the overflow test is left out
DrawLines_NoBreak(lines, y_position) ==
    IF lines = <<>> THEN <<>>
    ELSE <<Draw(70, y_position, "line", Head(lines),
                IF AnyWeakIn(Head(lines)) THEN "red" ELSE "black")>>
         \o DrawLines_NoBreak(Tail(lines), y_position + DetailLineHeight)

RECURSIVE DrawLines(_, _)
\* for line in output.split("\n"): break past the limit, else draw and advance
DrawLines(lines, y_position) ==
    IF lines = <<>> \/ y_position > DetailLimit THEN <<>>
    ELSE <<Draw(70, y_position, "line", Head(lines),
                IF AnyWeakIn(Head(lines)) THEN "red" ELSE "black")>>
         \o DrawLines(Tail(lines), y_position + DetailLineHeight)

\* one iteration of the scan results loop: one page for the target
DetailPage ==
    /\ pc = "details"
    /\ detail_idx <= Len(scan_results)
    /\ LET target == scan_results[detail_idx].target
           output == scan_results[detail_idx].output
       IN  images' = Append(images,
                            Page("detail", target, DrawLines(Split(output), DetailTop)))
    /\ detail_idx' = detail_idx + 1
    /\ UNCHANGED <<entry, pc, file_exists, file_lines, cover_exists, targets, idx, scan_log,
                   create_pdf_calls, scan_results, strong_targets, weak_targets,
                   high_findings, medium_findings, saved, document>>

\* images[0].save(output_pdf, save_all=True, append_images=images[1:])
SavePdf ==
    /\ pc = "details"
    /\ detail_idx > Len(scan_results)
    /\ document' = <<Head(images)>> \o Tail(images)
    /\ saved' = TRUE
    /\ pc' = "returned"
    /\ UNCHANGED <<entry, file_exists, file_lines, cover_exists, targets, idx, scan_log,
                   create_pdf_calls, scan_results, images, strong_targets, weak_targets,
                   high_findings, medium_findings, detail_idx>>

----------------------------------------------------------------------------
(* The runs *)

\* run_ssl_scan(targets_file, output_pdf) on a targets file that may be missing
InitRun ==
    /\ entry = "run_ssl_scan"
    /\ pc = "run_ssl_scan"
    /\ file_exists \in BOOLEAN
    /\ file_lines \in (IF file_exists THEN FileContents ELSE {<<>>})
    /\ scan_results = <<>>
    /\ create_pdf_calls = 0

\* create_pdf(scan_results, output_pdf, scan_date) on a given mapping
InitPdf ==
    /\ entry = "create_pdf"
    /\ pc = "create_pdf"
    /\ file_exists = FALSE
    /\ file_lines = <<>>
    /\ scan_results \in Mappings
    /\ create_pdf_calls = 1

Init ==
    /\ (InitRun \/ InitPdf)
    /\ cover_exists \in BOOLEAN
    /\ targets = <<>>
    /\ idx = 0
    /\ scan_log = <<>>
    /\ images = <<>>
    /\ strong_targets = <<>>
    /\ weak_targets = <<>>
    /\ high_findings = <<>>
    /\ medium_findings = <<>>
    /\ detail_idx = 0
    /\ saved = FALSE
    /\ document = <<>>

Next ==
    \/ FileNotFound
    \/ NoValidTargets
    \/ ReadTargets
    \/ ScanTarget
    \/ CallCreatePdf
    \/ LoadCoverImage
    \/ ClassifyTargets
    \/ CoverPage
    \/ SummaryPage
    \/ DetailPage
    \/ SavePdf

Spec == Init /\ [][Next]_vars

----------------------------------------------------------------------------
(* Vocabulary of the properties *)

\* create_pdf has returned and the document is written
Done == pc = "returned" /\ saved

\* the classification loop of create_pdf is over
Classified == pc \in {"cover", "summary", "details"} \/ Done

\* the cover page is composed
Counted == pc \in {"summary", "details"} \/ Done

Catalog == {WEAK_TLS_INDICATORS[k] : k \in 1..Len(WEAK_TLS_INDICATORS)}

\* the line contains a marker of the catalog
HasMarker(line) == \E m \in Catalog : Contains(line, m)

\* the legacy protocol versions and the broken stream cipher
HighMarkers == {SSLv2, SSLv3, TLSv1_0, TLSv1_1, RC4}

HasHighMarker(line) == \E m \in HighMarkers : Contains(line, m)

Range(seq) == {seq[i] : i \in 1..Len(seq)}

OutputOf(t) == scan_results[KeyIndex(scan_results, t)].output

IssuesOf(t) == weak_targets[KeyIndex(weak_targets, t)].issues

Min(a, b) == IF a <= b THEN a ELSE b

\* the pages of the given role, in page order
PagesOf(pages, role) == SelectSeq(pages, LAMBDA pg : pg.role = role)

\* the number the cover page shows on its line of the given kind
CoverNumber(pages, kind) ==
    LET draws == PagesOf(pages, "cover")[1].draws
    IN  draws[CHOOSE j \in 1..Len(draws) : draws[j].kind = kind].text

Kinds(page) == {page.draws[j].kind : j \in 1..Len(page.draws)}

\* the j-th smallest element of a set of numbers
Nth(S, j) == CHOOSE k \in S : Cardinality({k2 \in S : k2 < k}) = j - 1

\* every character of every line is white space
AllBlank(lines) ==
    \A i \in 1..Len(lines) : \A j \in 1..Len(lines[i]) : lines[i][j] \in Whitespace

----------------------------------------------------------------------------
(* Properties *)

\* C1: a target is in the weak set iff at least one line of its output contains
\* a catalog marker, and otherwise in the strong set; the matched lines of a weak
\* target are exactly the lines containing a marker, in their original order
\* (never empty), and a strong target has no matched list.
C1_Classification ==
    Classified =>
        \A i \in 1..Len(scan_results) :
            LET t == scan_results[i].target
                lines == Split(scan_results[i].output)
                M == {k \in 1..Len(lines) : HasMarker(lines[k])}
            IN  IF M # {}
                THEN /\ t \in Keys(weak_targets)
                     /\ t \notin Range(strong_targets)
                     /\ Len(IssuesOf(t)) = Cardinality(M)
                     /\ IssuesOf(t) # <<>>
                     /\ \A j \in 1..Len(IssuesOf(t)) : IssuesOf(t)[j] = lines[Nth(M, j)]
                ELSE /\ t \in Range(strong_targets)
                     /\ t \notin Keys(weak_targets)

\* C1 witness: a weak target, one of whose two or more lines is not matched
C1_Witness ==
    /\ Classified
    /\ \E i \in 1..Len(scan_results) :
          LET t == scan_results[i].target
          IN  /\ t \in Keys(weak_targets)
              /\ IssuesOf(t) # <<>>
              /\ Len(IssuesOf(t)) < Len(Split(scan_results[i].output))

\* C2 (as claimed): every weak target one of whose matched lines contains SSLv2,
\* SSLv3, TLSv1.0, TLSv1.1 or RC4 is counted in High-Risk Findings.
C2_LegacyMarkerIsHigh ==
    Counted =>
        \A t \in Keys(weak_targets) :
            (\E k \in 1..Len(IssuesOf(t)) : HasHighMarker(IssuesOf(t)[k]))
                => /\ t \in Range(high_findings)
                   /\ CoverNumber(images, "high") >= 1

\* C3 (as claimed): a target whose output is the failure text or empty is weak
\* with no matched line, not strong, and neither High nor Medium.
C3_NoOutputIsWeak ==
    Classified =>
        \A i \in 1..Len(scan_results) :
            scan_results[i].output \in {NO_OUTPUT, <<>>} =>
                LET t == scan_results[i].target
                IN  /\ t \in Keys(weak_targets)
                    /\ t \notin Range(strong_targets)
                    /\ t \in Keys(weak_targets) => IssuesOf(t) = <<>>
                    /\ Counted => /\ t \notin Range(high_findings)
                                  /\ t \notin Range(medium_findings)

\* C4 (as claimed): the detail pages of the document written by run_ssl_scan
\* correspond one to one, in order, to the entries of the target list: every
\* entry is scanned once, and the i-th detail page is the page of the i-th
\* target and shows the output of the i-th scan.
C4_PagePerListEntry ==
    (Done /\ entry = "run_ssl_scan") =>
        LET details == PagesOf(document, "detail")
        IN  /\ Len(scan_log) = Len(targets)
            /\ \A i \in 1..Len(targets) : scan_log[i].target = targets[i]
            /\ Len(details) = Len(targets)
            /\ \A i \in 1..Min(Len(details), Len(targets)) :
                  LET stored == IF scan_log[i].stdout # <<>>
                                THEN scan_log[i].stdout ELSE NO_OUTPUT
                      lines == Split(stored)
                  IN  /\ details[i].target = targets[i]
                      /\ Len(details[i].draws) = Min(Len(lines), 44)
                      /\ \A j \in 1..Len(details[i].draws) :
                            details[i].draws[j].text = lines[j]

\* C5: every target of the mapping is in exactly one of the strong and the weak
\* set, and on the cover page strong + weak = total; for the empty mapping the
\* five numbers are zero.
C5_CountsAddUp ==
    Counted =>
        /\ \A t \in Keys(scan_results) :
              (t \in Range(strong_targets)) # (t \in Keys(weak_targets))
        /\ CoverNumber(images, "total") = Cardinality(Keys(scan_results))
        /\ CoverNumber(images, "strong") + CoverNumber(images, "weak")
               = CoverNumber(images, "total")
        /\ scan_results = <<>> =>
              \A kind \in {"total", "strong", "weak", "high", "medium"} :
                  CoverNumber(images, kind) = 0

\* C5 witness: a mapping of two targets, one strong and one weak
C5_Witness ==
    /\ Counted
    /\ CoverNumber(images, "total") = 2
    /\ CoverNumber(images, "strong") = 1
    /\ CoverNumber(images, "weak") = 1

\* the target list read by run_ssl_scan is empty
EmptyTargetList ==
    entry = "run_ssl_scan" /\ file_exists /\ ReadTargetList(file_lines) = <<>>

\* the written document is the cover page and the summary page, with five
\* zero counts, both "none found" lines and no detail page
ZeroReport(pages) ==
    /\ [i \in 1..Len(pages) |-> pages[i].role] = <<"cover", "summary">>
    /\ \A kind \in {"total", "strong", "weak", "high", "medium"} :
          CoverNumber(pages, kind) = 0
    /\ {"none_strong", "none_weak"} \subseteq Kinds(pages[2])
    /\ Kinds(pages[2]) \cap {"strong_target", "weak_target", "issue"} = {}

\* C6 (as claimed): for an empty target list the pipeline ends with a written
\* document of exactly two pages, cover and summary, all counts zero.
C6_EmptyListGivesTwoPages ==
    (pc = "returned" /\ EmptyTargetList) => (saved /\ ZeroReport(document))

\* C6 (amended): create_pdf given the empty mapping writes the cover page
\* followed by the summary page, after the cover image page when the cover image
\* file exists, with five zero counts, both "none found" lines and no detail
\* page; run_ssl_scan never gets there: on an empty target list it returns
\* without calling create_pdf and without a document.
C6_EmptyMappingReport ==
    /\ (Done /\ scan_results = <<>>) =>
          /\ entry = "create_pdf"
          /\ Len(document) = (IF cover_exists THEN 3 ELSE 2)
          /\ cover_exists => document[1].role = "cover_image"
          /\ ZeroReport(IF cover_exists THEN Tail(document) ELSE document)
    /\ (pc = "details" /\ scan_results = <<>>) => ENABLED SavePdf
    /\ (pc = "returned" /\ EmptyTargetList) =>
          (~saved /\ document = <<>> /\ create_pdf_calls = 0)

\* C6 witness: create_pdf has written the two pages for the empty mapping
C6_Witness ==
    /\ Done
    /\ entry = "create_pdf"
    /\ scan_results = <<>>
    /\ ~cover_exists
    /\ Len(document) = 2

\* C7: when the targets file is missing or holds no non-blank line, no scan
\* command is issued, create_pdf is not called and no document is written.
C7_AbortBeforeScanning ==
    (entry = "run_ssl_scan" /\ (~file_exists \/ AllBlank(file_lines))) =>
        /\ scan_log = <<>>
        /\ create_pdf_calls = 0
        /\ ~saved
        /\ document = <<>>
        /\ pc \in {"run_ssl_scan", "returned"}

\* C7 witness: run_ssl_scan has returned on a file of blank lines only
C7_Witness ==
    /\ entry = "run_ssl_scan"
    /\ pc = "returned"
    /\ file_exists
    /\ Len(file_lines) >= 2
    /\ AllBlank(file_lines)

\* C8: a detail page shows exactly the first min(n, 44) of the n lines of its
\* target's output, line i (from 0) at 220 + 25 * i, none below 1300; and the
\* document holds exactly one detail page per target, whatever n is.
C8_DetailTruncation ==
    /\ \A p \in 1..Len(images) :
          images[p].role = "detail" =>
              LET lines == Split(OutputOf(images[p].target))
                  draws == images[p].draws
              IN  /\ Len(draws) = Min(Len(lines), 44)
                  /\ \A i \in 1..Len(draws) :
                        /\ draws[i].text = lines[i]
                        /\ draws[i].y = 220 + 25 * (i - 1)
                        /\ draws[i].y <= 1300
    /\ Done =>
          \A t \in Keys(scan_results) :
              Cardinality({p \in 1..Len(document) :
                              document[p].role = "detail" /\ document[p].target = t}) = 1

\* C8 witness: a written detail page of 44 lines for an output of more lines
C8_Witness ==
    /\ Done
    /\ \E p \in 1..Len(document) :
          /\ document[p].role = "detail"
          /\ Len(document[p].draws) = 44
          /\ Len(Split(OutputOf(document[p].target))) > 44

\* C9 (as claimed): a target is counted Medium only if it is not counted High
\* and one of its matched lines contains CBC; so no target is in both numbers
\* and High + Medium <= the number of weak targets.
C9_SingleTier ==
    Counted =>
        /\ \A t \in Range(medium_findings) :
              /\ t \notin Range(high_findings)
              /\ \E k \in 1..Len(IssuesOf(t)) : Contains(IssuesOf(t)[k], CBC)
        /\ CoverNumber(images, "high") + CoverNumber(images, "medium")
               <= CoverNumber(images, "weak")

\* C10 (as claimed): a target is counted in High-Risk Findings only if one of
\* its matched lines, taken alone, contains SSLv2, SSLv3, TLSv1.0, TLSv1.1 or RC4.
C10_HighOnlyByMarkerInLine ==
    Counted =>
        \A t \in Range(high_findings) :
            \E k \in 1..Len(IssuesOf(t)) : HasHighMarker(IssuesOf(t)[k])

====
